---------------------------- MODULE Spec2Model ----------------------------
(***************************************************************************)
(* Model of mcp_agentspace/server.py: the two MCP tools                    *)
(* get_search_response and get_deep_research_response, the helper          *)
(* process_deep_research_response, the library function                    *)
(* get_answer_response, and the process-wide environment variable SESSION. *)
(*                                                                         *)
(* Python values are encoded as strings.  Three reserved strings stand for *)
(* values that are not Python strings: NONE (None, also an unset           *)
(* environment variable as returned by os.environ.get), MISSING (a key     *)
(* that is absent from a dict or a JSON object) and NONSTR (a JSON value   *)
(* that is present but is not a string: null, a number, an object).        *)
(*                                                                         *)
(* Exceptions are named by their class.  The classes that occur all derive *)
(* from Exception; interpreter-exit signals (KeyboardInterrupt,            *)
(* SystemExit) are not failures of a step of the handlers and are not      *)
(* modelled.  ErrorData(code, message) and McpError(error) are taken to    *)
(* construct the error as the source writes it.                            *)
(***************************************************************************)
EXTENDS Naturals, Sequences, FiniteSets, TLC

VARIABLES
    SESSION,            \* os.environ["SESSION"]; NONE when unset
    pc,                 \* per invocation: position in the handler
    tool,               \* per invocation: the function that was called
    query,              \* per invocation: argument query / search_query
    start_new_session,  \* per invocation: argument start_new_session
    session,            \* per invocation: local `session` (line 213)
    request,            \* per invocation: stream_assist_request / request
    response,           \* per invocation: what the backend answered
    outcome,            \* per invocation: how the call ended
    started             \* history: session of the last successful new-session call

vars == <<SESSION, pc, tool, query, start_new_session, session, request,
          response, outcome, started>>

---------------------------------------------------------------------------
(* Bounds and input sets *)

MaxRows == 1            \* rows of a deep-research body (tool specifications)
MaxReplies == 1         \* replies of a row (tool specifications)
MaxReportRows == 2      \* rows of a body given to process_deep_research_response
MaxReportReplies == 2   \* replies of such a row
MaxResults == 2         \* results of a search response
MaxAnswers == 2         \* extractive answers of a result
MaxConcRows == 1        \* rows of a body (concurrent specification)
MaxConcReplies == 0     \* replies of a row (concurrent specification)
MaxConcResults == 1     \* results of a search response (concurrent specification)
MaxConcAnswers == 1     \* answers of a result (concurrent specification)

Invocations == {"inv1", "inv2"}

NONE == "<None>"
MISSING == "<missing>"
NONSTR == "<non-string>"

Queries == {"q"}
Texts == {"a", "b"}
Tokens == {"s1", "s2"}

IsStr(v) == v \notin {NONE, MISSING, NONSTR}

\* Python truthiness of a str-or-None value
Truthy(v) == v # NONE /\ v # ""

SeqsUpTo(S, n) == UNION {[1..k -> S] : k \in 0..n}

---------------------------------------------------------------------------
(* Exception classes and the facade's except clauses *)

ValueErrorClasses == {"ValueError", "JSONDecodeError", "InvalidHeader"}

ExceptionClasses ==
    ValueErrorClasses \cup
    {"KeyError", "IndexError", "TypeError", "NameError", "ConnectionError",
     "DefaultCredentialsError", "GoogleAPICallError"}

isinstance(e, cls) ==
    CASE cls = "ValueError" -> e \in ValueErrorClasses
      [] cls = "Exception"  -> e \in ExceptionClasses
      [] OTHER              -> e = cls

NoOutcome == [kind |-> "none", exc |-> NONE, code |-> NONE, value |-> NONE]
Returned(v) == [kind |-> "return", exc |-> NONE, code |-> NONE, value |-> v]
Raised(e) == [kind |-> "raise", exc |-> e, code |-> NONE, value |-> NONE]
McpError(code) == [kind |-> "raise", exc |-> "McpError", code |-> code, value |-> NONE]

\* a faulty variant: the catch-all clause is missing
search_except_no_catch_all(e) ==
    IF isinstance(e, "ValueError") THEN McpError("INVALID_PARAMS") ELSE Raised(e)

\* lines 141-144
search_except(e) ==
    IF isinstance(e, "ValueError") THEN McpError("INVALID_PARAMS")
    ELSE IF isinstance(e, "Exception") THEN McpError("INTERNAL_ERROR")
    ELSE Raised(e)

\* lines 235-238
deep_research_except(e) ==
    IF isinstance(e, "ValueError") THEN McpError("INVALID_PARAMS")
    ELSE IF isinstance(e, "Exception") THEN McpError("INTERNAL_ERROR")
    ELSE Raised(e)

\* the result of evaluating an expression: a value, or an exception
Val(v) == [exc |-> NONE, value |-> v]
Exc(e) == [exc |-> e, value |-> NONE]


---------------------------------------------------------------------------
(* Deep research: response bodies and process_deep_research_response *)

\* What a reply holds at groundedContent.content.text
ReplyValues == Texts \cup {MISSING}

\* What result[0].sessionInfo.session holds
SessionValues == Tokens \cup {"", MISSING, NONSTR}

\* A row of the JSON array.  shape "str" is what iterating a JSON object
\* yields: its keys.
RowsOf(sessions, maxReplies) ==
    {[shape |-> "dict", session |-> s, hasAnswer |-> FALSE, replies |-> <<>>] :
        s \in sessions}
    \cup
    [shape : {"dict"}, session : sessions, hasAnswer : {TRUE},
     replies : SeqsUpTo(ReplyValues, maxReplies)]

KeyRow == [shape |-> "str", session |-> MISSING, hasAnswer |-> FALSE, replies |-> <<>>]

NotJson == [kind |-> "notjson", rows |-> <<>>]
ErrorObject == [kind |-> "object", rows |-> <<>>]
ArrayOf(rows) == [kind |-> "array", rows |-> rows]

\* line 156 / line 225: json.loads(response.text)
json_loads(body) ==
    IF body.kind = "notjson" THEN Exc("JSONDecodeError") ELSE Val(body)

\* `for row in text_json`: the elements of a list, the keys of a dict
Iterate(text_json) ==
    IF text_json.kind = "object" THEN <<KeyRow>> ELSE text_json.rows

\* a faulty variant: the newline after each reply is forgotten
RECURSIVE replies_loop_no_newline(_, _)
replies_loop_no_newline(replies, raw_text) ==
    IF replies = <<>> THEN Val(raw_text)
    ELSE IF ~IsStr(Head(replies)) THEN [exc |-> "KeyError", value |-> raw_text]
    ELSE replies_loop_no_newline(Tail(replies), raw_text \o Head(replies))

\* lines 162-164: the loop over a row's replies.  It stops at the first reply
\* without a text string; value is raw_text as the loop left it.
RECURSIVE replies_loop(_, _)
replies_loop(replies, raw_text) ==
    IF replies = <<>> THEN Val(raw_text)
    ELSE IF ~IsStr(Head(replies)) THEN [exc |-> "KeyError", value |-> raw_text]
    ELSE replies_loop(Tail(replies), raw_text \o Head(replies) \o "\n")

\* lines 160-167: one row; the bare except swallows whatever was raised
row_step(row, raw_text) ==
    IF row.shape # "dict" THEN raw_text          \* TypeError, swallowed
    ELSE IF ~row.hasAnswer THEN raw_text         \* KeyError, swallowed
    ELSE replies_loop(row.replies, raw_text).value

\* lines 159-167
RECURSIVE rows_loop(_, _)
rows_loop(rows, raw_text) ==
    IF rows = <<>> THEN raw_text
    ELSE rows_loop(Tail(rows), row_step(Head(rows), raw_text))

Heading == "# Reserach Plan\n"

\* lines 146-168
process_deep_research_response(resp) ==
    LET text_json == json_loads(resp.body)
    IN  IF text_json.exc # NONE THEN text_json
        ELSE Val(rows_loop(Iterate(text_json.value), Heading))

\* line 227: result_json[0]['sessionInfo']['session']
first_session(result_json) ==
    IF result_json.kind = "object" THEN Exc("KeyError")
    ELSE IF result_json.rows = <<>> THEN Exc("IndexError")
    ELSE IF result_json.rows[1].session = MISSING THEN Exc("KeyError")
    ELSE Val(result_json.rows[1].session)

\* a faulty variant: the test of start_new_session is missing
store_session_always(start, result_json, env) ==
    LET s == first_session(result_json)
    IN  IF s.exc # NONE THEN [exc |-> s.exc, env |-> env]
        ELSE IF ~IsStr(s.value) THEN [exc |-> "TypeError", env |-> env]
        ELSE [exc |-> NONE, env |-> s.value]

\* lines 226-229: env is os.environ["SESSION"] before, and in the result after
store_session(start, result_json, env) ==
    IF start = TRUE
    THEN LET s == first_session(result_json)
         IN  IF s.exc # NONE THEN [exc |-> s.exc, env |-> env]
             ELSE IF ~IsStr(s.value) THEN [exc |-> "TypeError", env |-> env]
             ELSE [exc |-> NONE, env |-> s.value]
    ELSE [exc |-> NONE, env |-> env]

\* lines 225-233: from the received response to the returned report
deep_research_tail(resp, start, env) ==
    LET result_json == json_loads(resp.body)
    IN  IF result_json.exc # NONE
        THEN [exc |-> result_json.exc, value |-> NONE, env |-> env]
        ELSE LET st == store_session(start, result_json.value, env)
             IN  IF st.exc # NONE
                 THEN [exc |-> st.exc, value |-> NONE, env |-> env]
                 ELSE LET markdown_text == process_deep_research_response(resp)
                      IN  [exc |-> markdown_text.exc,
                           value |-> markdown_text.value,
                           env |-> st.env]

\* lines 200-210
stream_assist_request(q) ==
    [query |-> q, answerGenerationMode |-> "research", session |-> MISSING]

\* a faulty variant: the key is set whether or not a token was found
include_session_always(req, sess, env) == [req EXCEPT !.session = env]

\* lines 214-215: env is os.environ.get("SESSION") at line 215
include_session(req, sess, env) ==
    IF Truthy(sess) THEN [req EXCEPT !.session = env] ELSE req

---------------------------------------------------------------------------
(* Search: responses and the extraction of lines 133-138 *)

\* What an extractive answer holds at "content"
ContentValues == Texts \cup {MISSING}

\* A result's document as MessageToDict renders it: dsd says whether the key
\* derived_struct_data is there, ea whether extractive_answers is.
SearchDocs(maxAnswers) ==
    {[dsd |-> FALSE, ea |-> FALSE, answers |-> <<>>],
     [dsd |-> TRUE, ea |-> FALSE, answers |-> <<>>]}
    \cup
    [dsd : {TRUE}, ea : {TRUE}, answers : SeqsUpTo(ContentValues, maxAnswers)]

SearchResponses(maxResults, maxAnswers) ==
    [kind : {"search"}, results : SeqsUpTo(SearchDocs(maxAnswers), maxResults)]

\* a faulty variant: the last extractive answer is taken instead of the first
search_extract_last(resp) ==
    IF resp.results = <<>> THEN Exc("IndexError")
    ELSE LET document_dict == resp.results[1]
         IN  IF ~document_dict.dsd THEN Exc("KeyError")
             ELSE IF ~document_dict.ea THEN Exc("KeyError")
             ELSE IF document_dict.answers = <<>> THEN Exc("IndexError")
             ELSE IF document_dict.answers[Len(document_dict.answers)] = MISSING
                  THEN Exc("KeyError")
             ELSE Val(document_dict.answers[Len(document_dict.answers)])

\* lines 133-138
search_extract(resp) ==
    IF resp.results = <<>> THEN Exc("IndexError")
    ELSE LET document_dict == resp.results[1]
         IN  IF ~document_dict.dsd THEN Exc("KeyError")
             ELSE IF ~document_dict.ea THEN Exc("KeyError")
             ELSE IF document_dict.answers = <<>> THEN Exc("IndexError")
             ELSE IF document_dict.answers[1] = MISSING THEN Exc("KeyError")
             ELSE Val(document_dict.answers[1])

\* lines 65-67 and 190-193: the identifiers the two tools bind locally
project_id == "the-foo-bar"
location == "global"
engine_id == "cymbal-bank_1746202630648"
assistant_id == "default_assistant"

EnginePath(project, loc, engine) ==
    "projects/" \o project \o "/locations/" \o loc
        \o "/collections/default_collection/engines/" \o engine

\* line 82
search_serving_config ==
    EnginePath(project_id, location, engine_id) \o "/servingConfigs/default_config"

\* line 217
stream_assist_url ==
    "https://discoveryengine.googleapis.com/v1alpha/"
        \o EnginePath(project_id, location, engine_id)
        \o "/assistants/" \o assistant_id \o ":streamAssist"

---------------------------------------------------------------------------
(* get_answer_response: name resolution *)

\* the names bound at module level: the imports, mcp and the five functions
ModuleGlobals ==
    {"os", "requests", "json", "FastMCP", "McpError", "ErrorData",
     "INTERNAL_ERROR", "INVALID_PARAMS", "google", "ClientOptions",
     "discoveryengine", "MessageToDict", "mcp", "get_auth_header",
     "get_search_response", "process_deep_research_response",
     "get_deep_research_response", "get_answer_response"}

\* lines 240-245: the only parameter left uncommented
AnswerParams == {"query"}

\* lines 262-274: the names the body reads, in evaluation order, before it
\* sends anything (the condition of the conditional expression comes first)
AnswerNameReads == <<"location", "discoveryengine", "project_id", "location", "engine_id">>

RECURSIVE FirstUnbound(_, _)
FirstUnbound(names, scope) ==
    IF names = <<>> THEN NONE
    ELSE IF Head(names) \notin scope THEN Head(names)
    ELSE FirstUnbound(Tail(names), scope)

\* line 274, were its names bound to the tools' identifiers
answer_serving_config ==
    EnginePath(project_id, location, engine_id)
        \o "/servingConfigs/default_serving_config"

---------------------------------------------------------------------------
(* State *)

NoRequest == [target |-> NONE, body |-> [query |-> NONE, answerGenerationMode |-> NONE, session |-> MISSING]]
NoResponse == [kind |-> "none"]

InitialSessions == {NONE, "", "s0"}

Init ==
    /\ SESSION \in InitialSessions
    /\ started = SESSION
    /\ pc = [i \in Invocations |-> "idle"]
    /\ tool = [i \in Invocations |-> NONE]
    /\ query = [i \in Invocations |-> NONE]
    /\ start_new_session = [i \in Invocations |-> FALSE]
    /\ session = [i \in Invocations |-> NONE]
    /\ request = [i \in Invocations |-> NoRequest]
    /\ response = [i \in Invocations |-> NoResponse]
    /\ outcome = [i \in Invocations |-> NoOutcome]

\* no invocation is in progress
Quiet == \A j \in Invocations : pc[j] = "idle"

locals == <<session, request, response>>

\* the handler of invocation i ends with outcome o
End(i, o) ==
    /\ pc' = [pc EXCEPT ![i] = "done"]
    /\ outcome' = [outcome EXCEPT ![i] = o]

---------------------------------------------------------------------------
(* Calls *)

CallSearch(i) ==
    /\ pc[i] = "idle"
    /\ \E q \in Queries :
        /\ query' = [query EXCEPT ![i] = q]
        /\ tool' = [tool EXCEPT ![i] = "get_search_response"]
        /\ pc' = [pc EXCEPT ![i] = "search"]
    /\ UNCHANGED <<SESSION, start_new_session, locals, outcome, started>>

CallDeepResearch(i) ==
    /\ pc[i] = "idle"
    /\ \E q \in Queries, b \in BOOLEAN :
        /\ query' = [query EXCEPT ![i] = q]
        /\ start_new_session' = [start_new_session EXCEPT ![i] = b]
        /\ tool' = [tool EXCEPT ![i] = "get_deep_research_response"]
        /\ pc' = [pc EXCEPT ![i] = "auth"]
    /\ UNCHANGED <<SESSION, locals, outcome, started>>

CallAnswer(i) ==
    /\ pc[i] = "idle"
    /\ \E q \in Queries :
        /\ query' = [query EXCEPT ![i] = q]
        /\ tool' = [tool EXCEPT ![i] = "get_answer_response"]
        /\ pc' = [pc EXCEPT ![i] = "answer"]
    /\ UNCHANGED <<SESSION, start_new_session, locals, outcome, started>>

\* the call is over: its frame is gone
Return(i) ==
    /\ pc[i] = "done"
    /\ pc' = [pc EXCEPT ![i] = "idle"]
    /\ tool' = [tool EXCEPT ![i] = NONE]
    /\ query' = [query EXCEPT ![i] = NONE]
    /\ start_new_session' = [start_new_session EXCEPT ![i] = FALSE]
    /\ session' = [session EXCEPT ![i] = NONE]
    /\ request' = [request EXCEPT ![i] = NoRequest]
    /\ response' = [response EXCEPT ![i] = NoResponse]
    /\ outcome' = [outcome EXCEPT ![i] = NoOutcome]
    /\ UNCHANGED <<SESSION, started>>

---------------------------------------------------------------------------
(* get_search_response *)

\* what client creation, request construction and client.search can raise
SearchFailures == {"DefaultCredentialsError", "ValueError", "GoogleAPICallError"}

\* lines 65-144: build the request, send it, extract the answer; the except
\* clauses map whatever was raised.  The handler touches no shared state.
GetSearchResponse(i, responses) ==
    /\ pc[i] = "search"
    /\ \/ \E e \in SearchFailures :
            /\ End(i, search_except(e))
            /\ UNCHANGED <<request, response>>
       \/ \E resp \in responses :
            /\ request' = [request EXCEPT ![i] =
                    [target |-> search_serving_config, body |-> [query |-> query[i]]]]
            /\ response' = [response EXCEPT ![i] = resp]
            /\ LET r == search_extract(resp)
               IN  End(i, IF r.exc # NONE THEN search_except(r.exc)
                          ELSE Returned(r.value))
    /\ UNCHANGED <<SESSION, tool, query, start_new_session, session, started>>

---------------------------------------------------------------------------
(* get_deep_research_response *)

\* what get_auth_header can raise (google.auth errors derive from Exception)
AuthFailures == {"DefaultCredentialsError"}

\* what requests.post can raise: InvalidHeader derives from ValueError too
PostFailures == {"ConnectionError", "InvalidHeader"}

\* the backend's answers: accepted, or rejected with an error document
DeepResponses(bodies) ==
    [kind : {"http"}, status : {200}, body : bodies]
    \cup
    [kind : {"http"}, status : {403},
     body : {ErrorObject, ArrayOf(<<[shape |-> "dict", session |-> MISSING,
                                     hasAnswer |-> FALSE, replies |-> <<>>]>>)}]

Bodies(sessions, maxRows, maxReplies) ==
    {NotJson, ErrorObject}
    \cup {ArrayOf(rows) : rows \in SeqsUpTo(RowsOf(sessions, maxReplies), maxRows)}

ToolResponses == DeepResponses(Bodies(SessionValues, MaxRows, MaxReplies))
ToolSearchResponses == SearchResponses(MaxResults, MaxAnswers)

\* lines 195-196
DeepAuth(i) ==
    /\ pc[i] = "auth"
    /\ \/ \E e \in AuthFailures : End(i, deep_research_except(e))
       \/ /\ pc' = [pc EXCEPT ![i] = "build"]
          /\ UNCHANGED outcome
    /\ UNCHANGED <<SESSION, tool, query, start_new_session, locals, started>>

\* lines 200-213: the base request and, when continuing, the first read of SESSION
DeepBuild(i) ==
    /\ pc[i] = "build"
    /\ request' = [request EXCEPT ![i] =
            [target |-> stream_assist_url, body |-> stream_assist_request(query[i])]]
    /\ IF start_new_session[i] = FALSE
       THEN /\ session' = [session EXCEPT ![i] = SESSION]
            /\ pc' = [pc EXCEPT ![i] = "test"]
       ELSE /\ pc' = [pc EXCEPT ![i] = "post"]
            /\ UNCHANGED session
    /\ UNCHANGED <<SESSION, tool, query, start_new_session, response, outcome, started>>

\* lines 214-215: the test of the local, and the second read of SESSION
DeepInclude(i) ==
    /\ pc[i] = "test"
    /\ request' = [request EXCEPT ![i].body = include_session(@, session[i], SESSION)]
    /\ pc' = [pc EXCEPT ![i] = "post"]
    /\ UNCHANGED <<SESSION, tool, query, start_new_session, session, response,
                   outcome, started>>

\* lines 217-222: the request is posted; the answer arrives, or the post raises
DeepPost(i, responses) ==
    /\ pc[i] = "post"
    /\ \/ \E e \in PostFailures :
            /\ End(i, deep_research_except(e))
            /\ UNCHANGED response
       \/ \E r \in responses :
            /\ response' = [response EXCEPT ![i] = r]
            /\ pc' = [pc EXCEPT ![i] = "parse"]
            /\ UNCHANGED outcome
    /\ UNCHANGED <<SESSION, tool, query, start_new_session, session, request, started>>

\* lines 225-238: parse, store the session, build the report, map failures.
\* started records what a successful new-session call was answered.
DeepFinish(i) ==
    /\ pc[i] = "parse"
    /\ LET t == deep_research_tail(response[i], start_new_session[i], SESSION)
           o == IF t.exc # NONE THEN deep_research_except(t.exc) ELSE Returned(t.value)
       IN  /\ End(i, o)
           /\ SESSION' = t.env
           /\ started' = IF start_new_session[i] /\ o.kind = "return"
                         THEN response[i].body.rows[1].session
                         ELSE started
    /\ UNCHANGED <<tool, query, start_new_session, locals>>

---------------------------------------------------------------------------
(* get_answer_response *)

AnswerTexts == Texts

\* lines 262-324.  The body reads location, project_id and engine_id, which
\* are neither parameters nor module globals.
GetAnswerResponse(i) ==
    /\ pc[i] = "answer"
    /\ LET unbound == FirstUnbound(AnswerNameReads, AnswerParams \cup ModuleGlobals)
       IN  IF unbound # NONE
           THEN /\ End(i, Raised("NameError"))
                /\ UNCHANGED <<request, response>>
           ELSE \E T \in AnswerTexts :
                /\ request' = [request EXCEPT ![i] =
                        [target |-> answer_serving_config, body |-> [query |-> query[i]]]]
                /\ response' = [response EXCEPT ![i] =
                        [kind |-> "answer", answer_text |-> T]]
                /\ End(i, Returned(T))
    /\ UNCHANGED <<SESSION, tool, query, start_new_session, session, started>>

---------------------------------------------------------------------------
(* Specifications *)

\* Tool invocations one after the other
Next ==
    \E i \in Invocations :
        \/ Quiet /\ CallSearch(i)
        \/ Quiet /\ CallDeepResearch(i)
        \/ Quiet /\ CallAnswer(i)
        \/ GetSearchResponse(i, ToolSearchResponses)
        \/ DeepAuth(i)
        \/ DeepBuild(i)
        \/ DeepInclude(i)
        \/ DeepPost(i, ToolResponses)
        \/ DeepFinish(i)
        \/ GetAnswerResponse(i)
        \/ Return(i)

Spec == Init /\ [][Next]_vars

\* Tool invocations served concurrently: the handlers interleave at their
\* accesses to SESSION
ConcResponses == DeepResponses(Bodies(Tokens \cup {""}, MaxConcRows, MaxConcReplies))
ConcSearchResponses == SearchResponses(MaxConcResults, MaxConcAnswers)

NextConc ==
    \E i \in Invocations :
        \/ CallSearch(i)
        \/ CallDeepResearch(i)
        \/ CallAnswer(i)
        \/ GetSearchResponse(i, ConcSearchResponses)
        \/ DeepAuth(i)
        \/ DeepBuild(i)
        \/ DeepInclude(i)
        \/ DeepPost(i, ConcResponses)
        \/ DeepFinish(i)
        \/ GetAnswerResponse(i)
        \/ Return(i)

SpecConc == Init /\ [][NextConc]_vars

\* process_deep_research_response applied to every body within the bounds
ReportBodies == Bodies({MISSING}, MaxReportRows, MaxReportReplies)

InitReport ==
    /\ SESSION = NONE
    /\ started = NONE
    /\ pc = [i \in Invocations |-> "process"]
    /\ tool = [i \in Invocations |-> "process_deep_research_response"]
    /\ query = [i \in Invocations |-> NONE]
    /\ start_new_session = [i \in Invocations |-> FALSE]
    /\ session = [i \in Invocations |-> NONE]
    /\ request = [i \in Invocations |-> NoRequest]
    /\ \E b \in ReportBodies :
        response = [i \in Invocations |-> [kind |-> "http", status |-> 200, body |-> b]]
    /\ outcome = [i \in Invocations |-> NoOutcome]

\* lines 146-168, called directly: nothing maps what it raises
ProcessReport(i) ==
    /\ pc[i] = "process"
    /\ LET r == process_deep_research_response(response[i])
       IN  End(i, IF r.exc # NONE THEN Raised(r.exc) ELSE Returned(r.value))
    /\ UNCHANGED <<SESSION, tool, query, start_new_session, locals, started>>

NextReport ==
    \E i \in Invocations :
        \/ ProcessReport(i)
        \/ Return(i)

SpecReport == InitReport /\ [][NextReport]_vars

---------------------------------------------------------------------------
(* Properties *)

IsTool(i) == tool[i] \in {"get_search_response", "get_deep_research_response"}
DoneWith(i, t) == pc[i] = "done" /\ tool[i] = t
Answered(i) == response[i].kind # "none"

C2_SessionIsLastStarted == SESSION = started

\* a new-session call returned and SESSION holds the token s2 of its response
C2_Witness ==
    \E i \in Invocations :
        /\ DoneWith(i, "get_deep_research_response")
        /\ start_new_session[i]
        /\ outcome[i].kind = "return"
        /\ response[i].body.rows[1].session = "s2"
        /\ SESSION = "s2"

\* C3: in sequential execution, once a continuing (start_new_session=false)
\* deep-research call has built its request, the body has the key session
\* exactly when SESSION holds a non-empty token, its value is then that
\* token, and it is never None or the empty string.
C3_SessionKeyIffStored ==
    \A i \in Invocations :
        (/\ tool[i] = "get_deep_research_response"
         /\ start_new_session[i] = FALSE
         /\ pc[i] \in {"post", "parse"}) =>
            LET sent == request[i].body.session
            IN  /\ (sent # MISSING) <=> Truthy(SESSION)
                /\ sent # MISSING => sent = SESSION
                /\ sent \notin {NONE, ""}

\* a continuing call has posted a request that carries the stored token s1
C3_Witness ==
    \E i \in Invocations :
        /\ tool[i] = "get_deep_research_response"
        /\ start_new_session[i] = FALSE
        /\ pc[i] = "parse"
        /\ SESSION = "s1"
        /\ request[i].body.session = "s1"

WellFormedRow(row) ==
    /\ row.shape = "dict"
    /\ row.hasAnswer
    /\ \A k \in 1..Len(row.replies) : IsStr(row.replies[k])

WellFormedBody(body) ==
    /\ body.kind = "array"
    /\ \A k \in 1..Len(body.rows) : WellFormedRow(body.rows[k])

RECURSIVE Lines(_)
Lines(texts) ==
    IF texts = <<>> THEN "" ELSE Head(texts) \o "\n" \o Lines(Tail(texts))

RECURSIVE AllReplies(_)
AllReplies(rows) ==
    IF rows = <<>> THEN <<>> ELSE Head(rows).replies \o AllReplies(Tail(rows))

\* C4: for a body that is an array in which every row has answer.replies and
\* every reply has a text string, process_deep_research_response returns the
\* heading line followed by each reply text and a newline, in row order and,
\* within a row, in reply order; for the empty array, the heading alone.
C4_ReportOfWellFormedBody ==
    \A i \in Invocations :
        (/\ DoneWith(i, "process_deep_research_response")
         /\ WellFormedBody(response[i].body)) =>
            outcome[i] = Returned(Heading \o Lines(AllReplies(response[i].body.rows)))

\* two well-formed rows, the first with two replies, were rendered in order
C4_Witness ==
    \E i \in Invocations :
        /\ DoneWith(i, "process_deep_research_response")
        /\ WellFormedBody(response[i].body)
        /\ Len(response[i].body.rows) = 2
        /\ response[i].body.rows[1].replies = <<"b", "a">>
        /\ outcome[i].value = "# Reserach Plan\nb\na\nb\n"

RECURSIVE SurvivingReplies(_)
SurvivingReplies(rows) ==
    IF rows = <<>> THEN <<>>
    ELSE (IF WellFormedRow(Head(rows)) THEN Head(rows).replies ELSE <<>>)
            \o SurvivingReplies(Tail(rows))

\* C5: a row that lacks answer, or one of whose replies lacks the text, adds
\* nothing to the report and raises nothing; the other rows add what they
\* would add without it.
C5_MalformedRowAddsNothing ==
    \A i \in Invocations :
        (/\ DoneWith(i, "process_deep_research_response")
         /\ response[i].body.kind = "array") =>
            outcome[i] = Returned(Heading \o Lines(SurvivingReplies(response[i].body.rows)))

AnswerPathExists(resp) ==
    /\ Len(resp.results) >= 1
    /\ resp.results[1].dsd
    /\ resp.results[1].ea
    /\ Len(resp.results[1].answers) >= 1
    /\ resp.results[1].answers[1] # MISSING

C7_RejectionIsInternalError ==
    \A i \in Invocations :
        (/\ DoneWith(i, "get_deep_research_response")
         /\ Answered(i)
         /\ response[i].status # 200) =>
            outcome[i] = McpError("INTERNAL_ERROR")

\* C8: a failure that arises after the request was sent and answered, such as
\* a body that is not JSON or lacks a field, is never reported as
\* INVALID_PARAMS.
C8_NoInvalidParamsAfterSend ==
    \A i \in Invocations :
        (pc[i] = "done" /\ IsTool(i) /\ Answered(i)) =>
            outcome[i] # McpError("INVALID_PARAMS")

\* C9: get_answer_response builds a request for the serving config
\* .../servingConfigs/default_serving_config, sends it and returns the
\* answer_text of the response.
C9_AnswerReturnsAnswerText ==
    \A i \in Invocations :
        DoneWith(i, "get_answer_response") =>
            /\ request[i].target = answer_serving_config
            /\ response[i].kind = "answer"
            /\ outcome[i] = Returned(response[i].answer_text)

\* C10: under any interleaving, the session a continuing deep-research call
\* puts in its request is the value it read and tested: never empty, never
\* another token.
C10_SentSessionIsTestedSession ==
    \A i \in Invocations :
        (/\ tool[i] = "get_deep_research_response"
         /\ start_new_session[i] = FALSE
         /\ pc[i] \in {"post", "parse", "done"}
         /\ request[i].body.session # MISSING) =>
            /\ request[i].body.session = session[i]
            /\ Truthy(request[i].body.session)

============================================================================
